---- MODULE Spec2Model ----
(***************************************************************************)
(* Model of rigs/springChain.py: the spring-chain rig generator.           *)
(*                                                                         *)
(* A Rig is constructed on a root bone of a host skeleton (__init__) and   *)
(* then generate() duplicates the source chain five times, parents the     *)
(* copies, aligns their rolls, and in object mode creates widgets, locks,  *)
(* custom properties, constraints and drivers, and finally returns the UI  *)
(* script.  generate() is modelled section by section, one action per      *)
(* commented section of the source, sequenced by pc.                       *)
(*                                                                         *)
(* Numbers of the property tables are kept in tenths (1.0 is 10, 0.5 is 5) *)
(* so that the fractional defaults stay integers.                          *)
(***************************************************************************)
EXTENDS Integers, Sequences, FiniteSets, TLC

VARIABLES
    org_bones,          \* self.org_bones: the source chain, root first
    root_parent,        \* host: name of the parent of the root bone, or None
    unify_spring_props, \* self.params.unify_spring_props
    pc,                 \* position in the program
    error,              \* exception that ended the run, or "none"
    mode,               \* host: current interaction mode
    bones,              \* host: names of the bones of the skeleton
    parent_of,          \* host: bone name -> parent name or None
    use_connect,        \* host: bone name -> head snapped to parent's tail
    roll_ref,           \* host: bone name -> bone its roll was aligned to
    original_parent,    \* self.original_parent
    deform_bones,       \* self.deform_bones
    mch_source,         \* self.mch_source
    mch_target,         \* self.mch_target
    control_bones,      \* self.control_bones
    preview_bones,      \* self.preview_bones
    widgets,            \* host: bones that were given a widget
    hide_select,        \* host: bones made unselectable
    locks,              \* host: bones whose transform channels are locked
    props,              \* host: the custom properties, one per bone and knob name
    constraints,        \* host: constraints in creation order
    drivers,            \* host: drivers attached to constraint properties
    out,                \* the list returned by generate()
    log                 \* every host mutation issued, in order, with the mode it ran in

vars == <<org_bones, root_parent, unify_spring_props, pc, error, mode, bones,
          parent_of, use_connect, roll_ref, original_parent, deform_bones,
          mch_source, mch_target, control_bones, preview_bones, widgets,
          hide_select, locks, props, constraints, drivers, out, log>>

-----------------------------------------------------------------------------
(* Bounds and input sets *)

MaxLen == 4

\* Python's None, for a bone without parent (no bone has the empty name)
None == ""

\* names a source bone can have; the generator framework prefixes source
\* bones with ORG-, strip_org also accepts a name without the prefix
SourceNames ==
    {"ORG-A", "ORG-B", "ORG-C", "ORG-A_preview", "ORG-DEF-A", "B"}

\* what the root bone can hang off
RootParents == {None, "root", "A"}

Range(s) == {s[i] : i \in DOMAIN s}

IsInjective(s) == \A i, j \in DOMAIN s : s[i] = s[j] => i = j

\* bone names are unique within a skeleton
Chains ==
    {c \in UNION {[1..n -> SourceNames] : n \in 1..MaxLen} : IsInjective(c)}

-----------------------------------------------------------------------------
(* Name transforms (utils) *)

StartsWith(s, p) == Len(s) >= Len(p) /\ SubSeq(s, 1, Len(p)) = p

strip_org(name) ==
    IF StartsWith(name, "ORG-") THEN SubSeq(name, Len("ORG-") + 1, Len(name))
    ELSE name

make_mechanism_name(name) == "MCH-" \o name

make_deformer_name(name) == "DEF-" \o name

deform_name(bone) == make_deformer_name(strip_org(bone))

source_name(bone) == make_mechanism_name(strip_org(bone) \o "_source")

target_name(bone) == make_mechanism_name(strip_org(bone) \o "_target")

control_name(bone) == strip_org(bone)

preview_name(bone) == strip_org(bone) \o "_preview"

-----------------------------------------------------------------------------
(* Host skeleton: bone creation *)

Digit(d) == <<"0", "1", "2", "3", "4", "5", "6", "7", "8", "9">>[d + 1]

\* the host's numeric suffix ".001", ".002", ...
NumSuffix(k) ==
    "." \o Digit((k \div 100) % 10) \o Digit((k \div 10) % 10) \o Digit(k % 10)

RECURSIVE NextFree(_, _, _)
NextFree(used, name, k) ==
    IF (name \o NumSuffix(k)) \notin used THEN name \o NumSuffix(k)
    ELSE NextFree(used, name, k + 1)

\* edit_bones.new(name): the host never registers two bones under one name
unique_name(used, name) ==
    IF name \notin used THEN name ELSE NextFree(used, name, 1)

\* copy_bone(obj, bone_name, assign_name) on skeleton sk; returns the new
\* skeleton and the name the copy was registered under
copy_bone(sk, bone_name, assign_name) ==
    LET name == unique_name(sk.bones, assign_name)
        all  == sk.bones \cup {name}
    IN  [sk   |-> [bones   |-> all,
                   parent  |-> [b \in all |-> IF b = name THEN sk.parent[bone_name]
                                              ELSE sk.parent[b]],
                   connect |-> [b \in all |-> IF b = name THEN sk.connect[bone_name]
                                              ELSE sk.connect[b]]],
         name |-> name]

\* [copy_bone(obj, bone, reqs[i]) for bone in srcs]
RECURSIVE CopyChain(_, _, _, _)
CopyChain(sk, srcs, reqs, done) ==
    IF Len(done) = Len(srcs) THEN [sk |-> sk, names |-> done]
    ELSE LET i == Len(done) + 1
             c == copy_bone(sk, srcs[i], reqs[i])
         IN  CopyChain(c.sk, srcs, reqs, Append(done, c.name))

Entry(by, op, m, arg) == [by |-> by, op |-> op, mode |-> m, arg |-> arg]

CopyLog(srcs, reqs, names, m) ==
    [i \in 1..Len(srcs) |->
        Entry("generate", "copy_bone", m, <<srcs[i], reqs[i], names[i]>>)]

-----------------------------------------------------------------------------
(* Initial state: a skeleton holding the source chain, in object mode *)

Init ==
    /\ org_bones \in Chains
    /\ root_parent \in RootParents
    /\ unify_spring_props \in BOOLEAN
    /\ pc = "init"
    /\ error = "none"
    /\ mode = "OBJECT"
    /\ bones = Range(org_bones) \cup (IF root_parent = None THEN {} ELSE {root_parent})
    /\ parent_of = [b \in bones |->
                      IF b = root_parent THEN None
                      ELSE IF b = org_bones[1] THEN root_parent
                      ELSE org_bones[(CHOOSE i \in DOMAIN org_bones : org_bones[i] = b) - 1]]
    /\ use_connect = [b \in bones |-> b \in Range(org_bones) /\ b # org_bones[1]]
    /\ roll_ref = [b \in bones |-> None]
    /\ original_parent = None
    /\ deform_bones = <<>>
    /\ mch_source = <<>>
    /\ mch_target = <<>>
    /\ control_bones = <<>>
    /\ preview_bones = <<>>
    /\ widgets = {}
    /\ hide_select = {}
    /\ locks = {}
    /\ props = {}
    /\ constraints = <<>>
    /\ drivers = <<>>
    /\ out = <<>>
    /\ log = <<>>

-----------------------------------------------------------------------------
(* Rig.__init__ *)

ChainTooShort_lt2(chain) == Len(chain) < 2

ChainTooShort(chain) == Len(chain) < 3

Construct ==
    /\ pc = "init"
    /\ IF ChainTooShort(org_bones)
       THEN \* raise MetarigError, nothing touched
            /\ pc' = "failed"
            /\ error' = "MetarigError"
            /\ UNCHANGED <<mode, original_parent, log>>
       ELSE IF parent_of[org_bones[1]] = None
       THEN \* edit_bones[bone].parent is None: .name raises in edit mode
            /\ pc' = "failed"
            /\ error' = "AttributeError"
            /\ mode' = "EDIT"
            /\ log' = Append(log, Entry("__init__", "mode_set", mode, <<"EDIT">>))
            /\ UNCHANGED original_parent
       ELSE /\ pc' = "duplicate"
            /\ original_parent' = parent_of[org_bones[1]]
            /\ mode' = "OBJECT"
            /\ log' = log \o <<Entry("__init__", "mode_set", mode, <<"EDIT">>),
                               Entry("__init__", "mode_set", "EDIT", <<"OBJECT">>)>>
            /\ UNCHANGED error
    /\ UNCHANGED <<org_bones, root_parent, unify_spring_props, bones, parent_of,
                   use_connect, roll_ref, deform_bones, mch_source, mch_target,
                   control_bones, preview_bones, widgets, hide_select, locks,
                   props, constraints, drivers, out>>

-----------------------------------------------------------------------------
(* Rig.generate: create duplicates *)

Requested(chain, role) ==
    [i \in 1..Len(chain) |->
        CASE role = "deform"  -> deform_name(chain[i])
          [] role = "source"  -> source_name(chain[i])
          [] role = "target"  -> target_name(chain[i])
          [] role = "control" -> control_name(chain[i])
          [] role = "preview" -> preview_name(chain[i])]

GenDuplicate ==
    /\ pc = "duplicate"
    /\ LET sk0 == [bones |-> bones, parent |-> parent_of, connect |-> use_connect]
           d   == CopyChain(sk0, org_bones, Requested(org_bones, "deform"), <<>>)
           s   == CopyChain(d.sk, org_bones, Requested(org_bones, "source"), <<>>)
           t   == CopyChain(s.sk, org_bones, Requested(org_bones, "target"), <<>>)
           c   == CopyChain(t.sk, org_bones, Requested(org_bones, "control"), <<>>)
           p   == CopyChain(c.sk, org_bones, Requested(org_bones, "preview"), <<>>)
       IN  /\ deform_bones' = d.names
           /\ mch_source' = s.names
           /\ mch_target' = t.names
           /\ control_bones' = c.names
           /\ preview_bones' = p.names
           /\ bones' = p.sk.bones
           /\ parent_of' = p.sk.parent
           /\ use_connect' = p.sk.connect
           /\ roll_ref' = [b \in p.sk.bones |-> IF b \in bones THEN roll_ref[b] ELSE None]
           /\ log' = log
                     \o <<Entry("generate", "mode_set", mode, <<"EDIT">>)>>
                     \o CopyLog(org_bones, Requested(org_bones, "deform"), d.names, "EDIT")
                     \o CopyLog(org_bones, Requested(org_bones, "source"), s.names, "EDIT")
                     \o CopyLog(org_bones, Requested(org_bones, "target"), t.names, "EDIT")
                     \o CopyLog(org_bones, Requested(org_bones, "control"), c.names, "EDIT")
                     \o CopyLog(org_bones, Requested(org_bones, "preview"), p.names, "EDIT")
    /\ mode' = "EDIT"
    /\ pc' = "parenting"
    /\ UNCHANGED <<org_bones, root_parent, unify_spring_props, error,
                   original_parent, widgets, hide_select, locks, props,
                   constraints, drivers, out>>

-----------------------------------------------------------------------------
(* Rig.generate: parenting *)

\* one parenting step: how is the type handed to armature.parent_set, or
\* "ASSIGN" for a direct assignment to edit_bone.parent
Call(child, par, how) == [child |-> child, parent |-> par, how |-> how]

\* parent(childName, parentName, keep_offset)
parent(childName, parentName, keep_offset) ==
    Call(childName, parentName, IF keep_offset THEN "OFFSET" ELSE "CONNECTED")

ControlParentCalls_offset(control, orig) ==
    [i \in 1..Len(control) |->
        IF i = 1 THEN Call(control[i], orig, "ASSIGN")
        ELSE parent(control[i], control[i - 1], TRUE)]

\* "Ensure control bone parent integrity"
ControlParentCalls(control, orig) ==
    [i \in 1..Len(control) |->
        IF i = 1 THEN Call(control[i], orig, "ASSIGN")
        ELSE parent(control[i], control[i - 1], FALSE)]

\* "Deform and preview bones need no parents"
DetachCalls(names) == [i \in 1..Len(names) |-> Call(names[i], None, "ASSIGN")]

CrossParentCalls_unstaggered(source, target) ==
    [k \in 1..(2 * Len(source) - 1) |->
        IF k % 2 = 1 THEN parent(target[(k + 1) \div 2], source[(k + 1) \div 2], TRUE)
        ELSE parent(source[(k \div 2) + 1], source[k \div 2], TRUE)]

\* "Cross-parent source and target spring bones": for each i the target is
\* parented to its source and, but for the last, the next source to the target
CrossParentCalls(source, target) ==
    [k \in 1..(2 * Len(source) - 1) |->
        IF k % 2 = 1 THEN parent(target[(k + 1) \div 2], source[(k + 1) \div 2], TRUE)
        ELSE parent(source[(k \div 2) + 1], target[k \div 2], TRUE)]

\* the effect of one parenting step on the skeleton
ApplyCall(sk, c) ==
    [bones   |-> sk.bones,
     parent  |-> [sk.parent EXCEPT ![c.child] = c.parent],
     connect |-> IF c.how = "ASSIGN" THEN sk.connect
                 ELSE [sk.connect EXCEPT ![c.child] = (c.how = "CONNECTED")]]

RECURSIVE ApplyCalls(_, _, _)
ApplyCalls(sk, calls, i) ==
    IF i > Len(calls) THEN sk
    ELSE ApplyCalls(ApplyCall(sk, calls[i]), calls, i + 1)

ParentLog(calls) ==
    [i \in 1..Len(calls) |->
        Entry("generate", "parent", mode,
              <<calls[i].child, calls[i].parent, calls[i].how>>)]

GenParent ==
    /\ pc = "parenting"
    /\ LET calls == ControlParentCalls(control_bones, original_parent)
                    \o DetachCalls(deform_bones \o preview_bones)
                    \o CrossParentCalls(mch_source, mch_target)
           sk    == ApplyCalls([bones |-> bones, parent |-> parent_of,
                                connect |-> use_connect], calls, 1)
       IN  /\ parent_of' = sk.parent
           /\ use_connect' = sk.connect
           /\ log' = log \o ParentLog(calls)
    /\ pc' = "align_roll"
    /\ UNCHANGED <<org_bones, root_parent, unify_spring_props, error, mode, bones,
                   roll_ref, original_parent, deform_bones, mch_source, mch_target,
                   control_bones, preview_bones, widgets, hide_select, locks,
                   props, constraints, drivers, out>>

-----------------------------------------------------------------------------
(* Rig.generate: align bone roll *)

\* the (orgName, targetName) pairs handed to align_bone_roll, in order
RollPairs ==
    LET lists == <<control_bones, deform_bones, mch_source, mch_target, preview_bones>>
        n     == Len(org_bones)
    IN  [k \in 1..(5 * n) |->
            [org |-> org_bones[((k - 1) % n) + 1],
             target |-> lists[((k - 1) \div n) + 1][((k - 1) % n) + 1]]]

\* align_bone_roll(obj, bone1, bone2) assigns bone1.roll from bone2's frame
GenAlignRoll ==
    /\ pc = "align_roll"
    /\ roll_ref' = [b \in bones |->
                      IF \E k \in DOMAIN RollPairs : RollPairs[k].target = b
                      THEN RollPairs[CHOOSE k \in DOMAIN RollPairs :
                                        /\ RollPairs[k].target = b
                                        /\ \A j \in DOMAIN RollPairs :
                                              RollPairs[j].target = b => j <= k].org
                      ELSE roll_ref[b]]
    /\ log' = log \o [k \in DOMAIN RollPairs |->
                        Entry("generate", "roll", mode,
                              <<RollPairs[k].target, RollPairs[k].org>>)]
    /\ pc' = "widgets"
    /\ UNCHANGED <<org_bones, root_parent, unify_spring_props, error, mode, bones,
                   parent_of, use_connect, original_parent, deform_bones,
                   mch_source, mch_target, control_bones, preview_bones, widgets,
                   hide_select, locks, props, constraints, drivers, out>>

-----------------------------------------------------------------------------
(* Rig.generate: create widgets, transform locks *)

WidgetMode_edit == "EDIT"

\* the mode the "Create widgets" section switches to
WidgetMode == "OBJECT"

GenWidgets ==
    /\ pc = "widgets"
    /\ mode' = WidgetMode
    /\ widgets' = widgets \cup Range(preview_bones)
    /\ hide_select' = hide_select \cup Range(preview_bones)
    /\ log' = log
              \o <<Entry("generate", "mode_set", mode, <<WidgetMode>>)>>
              \o [i \in 1..Len(preview_bones) |->
                    Entry("generate", "widget", WidgetMode, <<preview_bones[i]>>)]
    /\ pc' = "locks"
    /\ UNCHANGED <<org_bones, root_parent, unify_spring_props, error, bones,
                   parent_of, use_connect, roll_ref, original_parent,
                   deform_bones, mch_source, mch_target, control_bones,
                   preview_bones, locks, props, constraints, drivers, out>>

GenLocks ==
    /\ pc = "locks"
    /\ locks' = locks \cup Range(preview_bones)
    /\ log' = log \o [i \in 1..Len(preview_bones) |->
                        Entry("generate", "lock", mode, <<preview_bones[i]>>)]
    /\ pc' = "properties"
    /\ UNCHANGED <<org_bones, root_parent, unify_spring_props, error, mode, bones,
                   parent_of, use_connect, roll_ref, original_parent,
                   deform_bones, mch_source, mch_target, control_bones,
                   preview_bones, widgets, hide_select, props, constraints,
                   drivers, out>>

-----------------------------------------------------------------------------
(* Rig.generate: properties *)

\* one custom property with its UI range, numbers in tenths
Prop(bone, name, value, mini, maxi) ==
    [bone |-> bone, name |-> name, value |-> value,
     min |-> mini, soft_min |-> mini, max |-> maxi, soft_max |-> maxi]

\* pb[name] = value: a second assignment to the same key replaces the first
SetProp(ps, p) ==
    {q \in ps : ~(q.bone = p.bone /\ q.name = p.name)} \cup {p}

RECURSIVE SetProps(_, _, _)
SetProps(ps, new, i) ==
    IF i > Len(new) THEN ps ELSE SetProps(SetProp(ps, new[i]), new, i + 1)

\* the props table [name, min, max, default], numbers in tenths
spring_props ==
    << <<"speed",          0, 1000, 10>>,
       <<"damping",        0, 10,   5>>,
       <<"gravity",        0, 1000, 0>>,
       <<"stiffness_x",    0, 10,   0>>,
       <<"stiffness_y",    0, 10,   0>>,
       <<"stiffness_z",    0, 10,   0>>,
       <<"dist_threshold", 0, 100,  10>>,
       <<"fast_factor",    0, 100,  30>>,
       <<"reset_on_frame", -990000, 990000, 10>> >>

tweakable_props == <<"speed", "gravity", "damping">>

FollowSpringProp(propBone) == Prop(propBone, "follow_spring", 10, 0, 10)

GlobalProps(propBone) ==
    [k \in 1..Len(spring_props) |->
        Prop(propBone, spring_props[k][1], spring_props[k][4],
             spring_props[k][2], spring_props[k][3])]

FactorProps_max10(factorBone) ==
    [k \in 1..Len(tweakable_props) |->
        Prop(factorBone, tweakable_props[k] \o "_factor", 10, 0, 100)]

\* the three factor properties of one spring bone
FactorProps(factorBone) ==
    [k \in 1..Len(tweakable_props) |->
        Prop(factorBone, tweakable_props[k] \o "_factor", 10, 0, 1000)]

PropLog(new, m) ==
    [i \in 1..Len(new) |->
        Entry("generate", "property", m, <<new[i].bone, new[i].name>>)]

GenProperties ==
    /\ pc = "properties"
    /\ LET propBoneName == org_bones[1]
           new == <<FollowSpringProp(propBoneName)>>
                  \o (IF unify_spring_props THEN GlobalProps(propBoneName) ELSE <<>>)
       IN  /\ props' = SetProps(props, new, 1)
           /\ log' = log \o PropLog(new, mode)
    /\ pc' = "spring"
    /\ UNCHANGED <<org_bones, root_parent, unify_spring_props, error, mode, bones,
                   parent_of, use_connect, roll_ref, original_parent,
                   deform_bones, mch_source, mch_target, control_bones,
                   preview_bones, widgets, hide_select, locks, constraints,
                   drivers, out>>

-----------------------------------------------------------------------------
(* Rig.generate: constraining *)

Constraint(owner, type, name, subtarget, space) ==
    [owner |-> owner, type |-> type, name |-> name, subtarget |-> subtarget,
     target_space |-> space, owner_space |-> space]

\* pose_bone.path_from_id()
path_from_id(bone) == "pose.bones[\"" \o bone \o "\"]"

\* '["%s"]' % name
KeyPath(name) == "[\"" \o name \o "\"]"

Variable(name, data_path) ==
    [name |-> name, id_type |-> "OBJECT", data_path |-> data_path]

Driver(owner, con, path, expression, variables) ==
    [owner |-> owner, constraint |-> con, path |-> path, type |-> "SCRIPTED",
     expression |-> expression, variables |-> variables]

IsTweakable(name) == \E k \in DOMAIN tweakable_props : tweakable_props[k] = name

SpringDrivers_noFactor(propBone, factorBone) ==
    [k \in 1..Len(spring_props) |->
        LET name == spring_props[k][1]
        IN  Driver(factorBone, "Spring", name, "var",
                   <<Variable("var", path_from_id(propBone) \o KeyPath(name))>>)]

\* the drivers added to the spring constraint of factorBone, one per row of
\* the props table
SpringDrivers(propBone, factorBone) ==
    [k \in 1..Len(spring_props) |->
        LET name == spring_props[k][1]
        IN  Driver(factorBone, "Spring", name,
                   IF IsTweakable(name) THEN "var * factor" ELSE "var",
                   <<Variable("var", path_from_id(propBone) \o KeyPath(name))>>
                   \o (IF IsTweakable(name)
                       THEN <<Variable("factor", path_from_id(factorBone)
                                                 \o KeyPath(name \o "_factor"))>>
                       ELSE <<>>))]

ConstraintLog(cs, m) ==
    [i \in 1..Len(cs) |->
        Entry("generate", "constraint", m, <<cs[i].owner, cs[i].name>>)]

DriverLog(ds, m) ==
    [i \in 1..Len(ds) |->
        Entry("generate", "driver", m, <<ds[i].owner, ds[i].constraint, ds[i].path>>)]

\* what one pass of the "Create Spring constraints" loop adds
SpringPass(i) ==
    LET con == Constraint(mch_target[i], "SPRING", "Spring", mch_source[i], "WORLD")
        fp  == IF unify_spring_props THEN FactorProps(mch_target[i]) ELSE <<>>
        ds  == IF unify_spring_props THEN SpringDrivers(org_bones[1], mch_target[i])
               ELSE <<>>
    IN  [con |-> con, props |-> fp, drivers |-> ds,
         log |-> ConstraintLog(<<con>>, "OBJECT") \o PropLog(fp, "OBJECT")
                 \o DriverLog(ds, "OBJECT")]

RECURSIVE Concat(_, _, _)
Concat(f, field, i) ==
    IF i > Len(f) THEN <<>>
    ELSE (CASE field = "props"   -> f[i].props
            [] field = "drivers" -> f[i].drivers
            [] field = "log"     -> f[i].log) \o Concat(f, field, i + 1)

GenSpring ==
    /\ pc = "spring"
    /\ mode' = "OBJECT"
    /\ LET passes == [i \in 1..Len(mch_source) |-> SpringPass(i)]
       IN  /\ constraints' = constraints \o [i \in DOMAIN passes |-> passes[i].con]
           /\ props' = SetProps(props, Concat(passes, "props", 1), 1)
           /\ drivers' = drivers \o Concat(passes, "drivers", 1)
           /\ log' = log \o <<Entry("generate", "mode_set", mode, <<"OBJECT">>)>>
                         \o Concat(passes, "log", 1)
    /\ pc' = "spring_control"
    /\ UNCHANGED <<org_bones, root_parent, unify_spring_props, error, bones,
                   parent_of, use_connect, roll_ref, original_parent,
                   deform_bones, mch_source, mch_target, control_bones,
                   preview_bones, widgets, hide_select, locks, out>>

\* "Create Spring control constraints"
GenSpringControl ==
    /\ pc = "spring_control"
    /\ LET cs == [i \in 1..Len(mch_source) |->
                    Constraint(mch_source[i], "COPY_ROTATION", "Copy Rotation",
                               control_bones[i], "LOCAL")]
       IN  /\ constraints' = constraints \o cs
           /\ log' = log \o ConstraintLog(cs, mode)
    /\ pc' = "deform"
    /\ UNCHANGED <<org_bones, root_parent, unify_spring_props, error, mode, bones,
                   parent_of, use_connect, roll_ref, original_parent,
                   deform_bones, mch_source, mch_target, control_bones,
                   preview_bones, widgets, hide_select, locks, props, drivers, out>>

DeformConstraints_swapped(defName, springName, ctrlName) ==
    <<Constraint(defName, "COPY_TRANSFORMS", "Follow Manual", springName, "WORLD"),
      Constraint(defName, "COPY_TRANSFORMS", "Follow Spring", ctrlName, "WORLD")>>

\* the two constraints of one deformation bone
DeformConstraints(defName, springName, ctrlName) ==
    <<Constraint(defName, "COPY_TRANSFORMS", "Follow Manual", ctrlName, "WORLD"),
      Constraint(defName, "COPY_TRANSFORMS", "Follow Spring", springName, "WORLD")>>

\* the influence driver of the "Follow Spring" constraint of one deformation bone
DeformDrivers(defName, propBone) ==
    <<Driver(defName, "Follow Spring", "influence", "follow_spring",
             <<Variable("follow_spring",
                        path_from_id(propBone) \o KeyPath("follow_spring"))>>)>>

\* "Constrain deformation bones"
GenDeform ==
    /\ pc = "deform"
    /\ LET n  == Len(deform_bones)
           cs == [k \in 1..(2 * n) |->
                    DeformConstraints(deform_bones[(k + 1) \div 2],
                                      mch_target[(k + 1) \div 2],
                                      control_bones[(k + 1) \div 2])[2 - (k % 2)]]
           ds == [i \in 1..n |-> DeformDrivers(deform_bones[i], org_bones[1])[1]]
       IN  /\ constraints' = constraints \o cs
           /\ drivers' = drivers \o ds
           /\ log' = log \o [k \in 1..(3 * n) |->
                               IF k % 3 = 0 THEN DriverLog(ds, mode)[k \div 3]
                               ELSE ConstraintLog(cs, mode)[2 * ((k - 1) \div 3) + (k % 3)]]
    /\ pc' = "preview"
    /\ UNCHANGED <<org_bones, root_parent, unify_spring_props, error, mode, bones,
                   parent_of, use_connect, roll_ref, original_parent,
                   deform_bones, mch_source, mch_target, control_bones,
                   preview_bones, widgets, hide_select, locks, props, out>>

\* "Constrain preview bones"
GenPreview ==
    /\ pc = "preview"
    /\ LET cs == [i \in 1..Len(preview_bones) |->
                    Constraint(preview_bones[i], "COPY_TRANSFORMS", "Follow Manual",
                               deform_bones[i], "WORLD")]
       IN  /\ constraints' = constraints \o cs
           /\ log' = log \o ConstraintLog(cs, mode)
    /\ pc' = "lookup"
    /\ UNCHANGED <<org_bones, root_parent, unify_spring_props, error, mode, bones,
                   parent_of, use_connect, roll_ref, original_parent,
                   deform_bones, mch_source, mch_target, control_bones,
                   preview_bones, widgets, hide_select, locks, props, drivers, out>>

-----------------------------------------------------------------------------
(* Rig.generate: lookup table and UI script *)

\* for key, value in zip(keys, values): lookup[key] = value
RECURSIVE ZipInto(_, _, _, _)
ZipInto(dict, keys, values, i) ==
    IF i > Len(keys) \/ i > Len(values) THEN dict
    ELSE ZipInto([k \in DOMAIN dict \cup {keys[i]} |->
                     IF k = keys[i] THEN values[i] ELSE dict[k]],
                 keys, values, i + 1)

EmptyDict == [k \in {} |-> None]

Lookup_controlOnly(control, preview, target) ==
    ZipInto(EmptyDict, control, target, 1)

\* "Create a lookup table for exposing spring settings"
Lookup(control, preview, target) ==
    ZipInto(ZipInto(EmptyDict, control, target, 1), preview, target, 1)

\* the fields get_main_script embeds in the script text
get_main_script(individual, prop_bone, lookup, control, preview, spring) ==
    [individual |-> individual, prop_bone |-> prop_bone, lookup |-> lookup,
     control_bones |-> control, preview_bones |-> preview, spring_bones |-> spring]

GenLookup ==
    /\ pc = "lookup"
    /\ out' = <<get_main_script(~unify_spring_props, org_bones[1],
                                Lookup(control_bones, preview_bones, mch_target),
                                control_bones, preview_bones, mch_target)>>
    /\ pc' = "done"
    /\ UNCHANGED <<org_bones, root_parent, unify_spring_props, error, mode, bones,
                   parent_of, use_connect, roll_ref, original_parent,
                   deform_bones, mch_source, mch_target, control_bones,
                   preview_bones, widgets, hide_select, locks, props,
                   constraints, drivers, log>>

-----------------------------------------------------------------------------

Next ==
    \/ Construct
    \/ GenDuplicate
    \/ GenParent
    \/ GenAlignRoll
    \/ GenWidgets
    \/ GenLocks
    \/ GenProperties
    \/ GenSpring
    \/ GenSpringControl
    \/ GenDeform
    \/ GenPreview
    \/ GenLookup

Spec == Init /\ [][Next]_vars

-----------------------------------------------------------------------------
(* Properties *)

N == Len(org_bones)

\* the skeleton as it was before the Rig was constructed
InitialBones ==
    Range(org_bones) \cup (IF root_parent = None THEN {} ELSE {root_parent})

PastParenting ==
    pc \in {"align_roll", "widgets", "locks", "properties", "spring",
            "spring_control", "deform", "preview", "lookup", "done"}

PastDeform == pc \in {"preview", "lookup", "done"}

\* the parenting steps issued on bone b, in order
ParentStepsOn(b) ==
    SelectSeq(log, LAMBDA e : e.op = "parent" /\ e.arg[1] = b)

\* the last parenting step issued on child made par its parent with type how
LinkedBy(child, par, how) ==
    /\ ParentStepsOn(child) # <<>>
    /\ ParentStepsOn(child)[Len(ParentStepsOn(child))].arg = <<child, par, how>>

\* C1: constructing a Rig on a chain of fewer than 3 bones raises
\* MetarigError and mutates nothing: no mode switch, no bone created, the
\* bone count is what it was.
C1_TooShortRaisesUntouched ==
    (N < 3 /\ pc # "init") =>
        /\ pc = "failed"
        /\ error = "MetarigError"
        /\ log = <<>>
        /\ mode = "OBJECT"
        /\ bones = InitialBones
        /\ Cardinality(bones) = Cardinality(InitialBones)

C1_Witness == N < 3 /\ pc = "failed" /\ error = "MetarigError"

\* C2: construction followed by generate either completes and returns the UI
\* script, or raises the chain-too-short MetarigError before any mutation of
\* the host (a mode switch included); no error is raised after a mutation.
C2_OnlyTwoOutcomes ==
    /\ pc = "done" => (error = "none" /\ Len(out) = 1)
    /\ pc = "failed" => (error = "MetarigError" /\ log = <<>>)
    /\ error # "none" => (error = "MetarigError" /\ log = <<>>)

\* C3: after parenting on a chain of N >= 3 bones, mch_target[i] hangs off
\* mch_source[i] for every i and mch_source[i+1] off mch_target[i] for i < N-1
\* (0-based), each link made with parent type OFFSET and being the last
\* parenting step issued on its child.
C3_StaggeredCrossParenting ==
    (PastParenting /\ N >= 3) =>
        /\ \A i \in 1..N :
              /\ parent_of[mch_target[i]] = mch_source[i]
              /\ ~use_connect[mch_target[i]]
              /\ LinkedBy(mch_target[i], mch_source[i], "OFFSET")
        /\ \A i \in 1..(N - 1) :
              /\ parent_of[mch_source[i + 1]] = mch_target[i]
              /\ ~use_connect[mch_source[i + 1]]
              /\ LinkedBy(mch_source[i + 1], mch_target[i], "OFFSET")

C3_Witness == pc = "done" /\ N >= 4 /\ parent_of[mch_source[N]] = mch_target[N - 1]

\* C4: after parenting on a chain of N >= 3 bones, the parent of control[0] is
\* the parent the first source bone had when the Rig was constructed, and
\* control[i] hangs off control[i-1] for 1 <= i < N, linked with parent type
\* CONNECTED.
C4_ControlChainParents ==
    (PastParenting /\ N >= 3) =>
        /\ parent_of[control_bones[1]] = root_parent
        /\ root_parent \in InitialBones
        /\ \A i \in 2..N :
              /\ parent_of[control_bones[i]] = control_bones[i - 1]
              /\ use_connect[control_bones[i]]
              /\ LinkedBy(control_bones[i], control_bones[i - 1], "CONNECTED")

\* the control name of the first source bone is the name of its parent
C4_Witness ==
    /\ pc = "done"
    /\ N >= 3
    /\ root_parent = "A"
    /\ org_bones[1] = "ORG-A"
    /\ parent_of[control_bones[1]] = "A"

StructuralOps == {"copy_bone", "parent", "roll"}

RuntimeOps == {"widget", "lock", "property", "constraint", "driver"}

\* C5: every structural mutation (bone copy, parent assignment, roll) is
\* issued in edit mode and before any runtime-configuration mutation (widget,
\* lock, custom property, constraint, driver); every runtime-configuration
\* mutation is issued in object mode; once generate has switched from edit
\* to object mode it never switches to edit mode again.
C5_TwoPhaseProtocol ==
    \A i \in DOMAIN log :
        /\ log[i].op \in StructuralOps =>
              /\ log[i].mode = "EDIT"
              /\ \A j \in 1..(i - 1) : log[j].op \notin RuntimeOps
        /\ log[i].op \in RuntimeOps => log[i].mode = "OBJECT"
        /\ (/\ log[i].by = "generate"
            /\ log[i].op = "mode_set"
            /\ log[i].mode = "EDIT"
            /\ log[i].arg = <<"OBJECT">>) =>
              \A j \in (i + 1)..Len(log) :
                  ~(log[j].op = "mode_set" /\ log[j].arg = <<"EDIT">>)

C5_Witness ==
    /\ pc = "done"
    /\ \E i, j, k \in DOMAIN log :
          /\ i < j /\ j < k
          /\ log[i].op = "roll"
          /\ log[j].op = "mode_set" /\ log[j].by = "generate" /\ log[j].arg = <<"OBJECT">>
          /\ log[k].op = "driver"

\* the constraints owned by bone b, in stack order
ConstraintsOf(b) == SelectSeq(constraints, LAMBDA c : c.owner = b)

\* the drivers on property path of constraint con of bone b
DriversOn(b, con, path) ==
    SelectSeq(drivers, LAMBDA d : d.owner = b /\ d.constraint = con /\ d.path = path)

\* d is a scripted driver evaluating expression over the single variable
\* follow_spring read from the follow_spring knob of the first source bone
ReadsFollowSpring(d, expression) ==
    /\ d.type = "SCRIPTED"
    /\ d.expression = expression
    /\ Len(d.variables) = 1
    /\ d.variables[1].name = "follow_spring"
    /\ d.variables[1].data_path = "pose.bones[\"" \o org_bones[1] \o "\"][\"follow_spring\"]"

\* every deform bone has exactly the two transform-copy constraints
\* "Follow Manual" on control[i] and "Follow Spring" on mch_target[i]
DeformFollowsBoth ==
    \A i \in 1..N :
        /\ Len(ConstraintsOf(deform_bones[i])) = 2
        /\ \E m, s \in 1..2 :
              /\ m # s
              /\ ConstraintsOf(deform_bones[i])[m].type = "COPY_TRANSFORMS"
              /\ ConstraintsOf(deform_bones[i])[m].name = "Follow Manual"
              /\ ConstraintsOf(deform_bones[i])[m].subtarget = control_bones[i]
              /\ ConstraintsOf(deform_bones[i])[s].type = "COPY_TRANSFORMS"
              /\ ConstraintsOf(deform_bones[i])[s].name = "Follow Spring"
              /\ ConstraintsOf(deform_bones[i])[s].subtarget = mch_target[i]

\* C6 as claimed: both constraints of every deform bone carry an influence
\* driver over follow_spring, "Follow Manual" with 1 - follow_spring and
\* "Follow Spring" with follow_spring.
C6_BothInfluencesDriven ==
    PastDeform =>
        /\ DeformFollowsBoth
        /\ \A i \in 1..N :
              /\ Len(DriversOn(deform_bones[i], "Follow Manual", "influence")) = 1
              /\ ReadsFollowSpring(
                    DriversOn(deform_bones[i], "Follow Manual", "influence")[1],
                    "1 - follow_spring")
              /\ Len(DriversOn(deform_bones[i], "Follow Spring", "influence")) = 1
              /\ ReadsFollowSpring(
                    DriversOn(deform_bones[i], "Follow Spring", "influence")[1],
                    "follow_spring")

\* C6 amended: every deform bone has exactly the two transform-copy
\* constraints "Follow Manual" on control[i] and "Follow Spring" on
\* mch_target[i]; only "Follow Spring" carries an influence driver, with the
\* expression follow_spring over the follow_spring knob of the first source
\* bone; "Follow Manual" has no driver.
C6_OnlySpringInfluenceDriven ==
    PastDeform =>
        /\ DeformFollowsBoth
        /\ \A i \in 1..N :
              /\ \A k \in DOMAIN drivers :
                    drivers[k].owner = deform_bones[i] =>
                        /\ drivers[k].constraint = "Follow Spring"
                        /\ drivers[k].path = "influence"
              /\ Len(DriversOn(deform_bones[i], "Follow Spring", "influence")) = 1
              /\ ReadsFollowSpring(
                    DriversOn(deform_bones[i], "Follow Spring", "influence")[1],
                    "follow_spring")

C6_Witness ==
    /\ pc = "done"
    /\ N >= 3
    /\ \E k \in DOMAIN drivers :
          drivers[k].owner = deform_bones[N] /\ drivers[k].constraint = "Follow Spring"

\* the names the five role transforms ask for, over the whole chain
RequestedNames ==
    {deform_name(org_bones[i]) : i \in 1..N}
    \cup {source_name(org_bones[i]) : i \in 1..N}
    \cup {target_name(org_bones[i]) : i \in 1..N}
    \cup {control_name(org_bones[i]) : i \in 1..N}
    \cup {preview_name(org_bones[i]) : i \in 1..N}

\* C7: for a chain of N >= 3 bones the 5N names produced by the five role
\* name transforms are pairwise distinct, within a role and across roles.
C7_TransformsNeverCollide ==
    (PastParenting /\ N >= 3) => Cardinality(RequestedNames) = 5 * N

\* C8: the lookup table of the returned UI script has exactly 2N entries,
\* its keys are the control and the preview bone names, control[i] and
\* preview[i] both map to mch_target[i], and no key maps to the
\* mechanical-target bone of another index.
C8_LookupTable ==
    (pc = "done" /\ N >= 3) =>
        /\ Len(out) = 1
        /\ DOMAIN out[1].lookup = Range(control_bones) \cup Range(preview_bones)
        /\ Cardinality(DOMAIN out[1].lookup) = 2 * N
        /\ \A i \in 1..N :
              /\ out[1].lookup[control_bones[i]] = mch_target[i]
              /\ out[1].lookup[preview_bones[i]] = mch_target[i]
        /\ \A key \in DOMAIN out[1].lookup : \A j \in 1..N :
              out[1].lookup[key] = mch_target[j] =>
                  key \in {control_bones[j], preview_bones[j]}

\* a chain on which a control and a preview transform ask for the same name
C8_Witness ==
    /\ pc = "done"
    /\ \E i, j \in 1..N : control_name(org_bones[i]) = preview_name(org_bones[j])
    /\ Cardinality(DOMAIN out[1].lookup) = 2 * N

GlobalKnobNames ==
    {"speed", "damping", "gravity", "stiffness_x", "stiffness_y", "stiffness_z",
     "dist_threshold", "fast_factor", "reset_on_frame"}

FactorKnobNames == {"speed_factor", "gravity_factor", "damping_factor"}

KnobsOn(b) == {p \in props : p.bone = b}

\* how many times the log records the creation of knob name on bone b
TimesCreated(b, name) ==
    Cardinality({i \in DOMAIN log : log[i].op = "property" /\ log[i].arg = <<b, name>>})

\* C9 (numbers in tenths): follow_spring is always created on the first
\* source bone with min = soft_min = 0.0, max = soft_max = 1.0, value 1.0;
\* with unify_spring_props the 9 global knobs are created once on that bone
\* and the 3 factor knobs on every mechanical-target bone, each with
\* min = soft_min = 0, max = soft_max = 100, value 1; without it no knob but
\* follow_spring is created.
C9_KnobSet ==
    (pc = "done" /\ N >= 3) =>
        /\ [bone |-> org_bones[1], name |-> "follow_spring", value |-> 10,
            min |-> 0, soft_min |-> 0, max |-> 10, soft_max |-> 10] \in props
        /\ TimesCreated(org_bones[1], "follow_spring") = 1
        /\ unify_spring_props =>
              /\ {p.name : p \in KnobsOn(org_bones[1])}
                    = GlobalKnobNames \cup {"follow_spring"}
              /\ Cardinality(KnobsOn(org_bones[1])) = 10
              /\ \A name \in GlobalKnobNames : TimesCreated(org_bones[1], name) = 1
              /\ \A i \in 1..N :
                    /\ {p.name : p \in KnobsOn(mch_target[i])} = FactorKnobNames
                    /\ Cardinality(KnobsOn(mch_target[i])) = 3
                    /\ \A p \in KnobsOn(mch_target[i]) :
                          /\ p.min = 0 /\ p.soft_min = 0
                          /\ p.max = 1000 /\ p.soft_max = 1000
                          /\ p.value = 10
                          /\ TimesCreated(mch_target[i], p.name) = 1
              /\ Cardinality(props) = 10 + 3 * N
        /\ ~unify_spring_props => Cardinality(props) = 1

C9_Witness ==
    /\ pc = "done"
    /\ N >= 3
    /\ unify_spring_props
    /\ Cardinality(KnobsOn(mch_target[N])) = 3

SpringDriversOf(b) ==
    SelectSeq(drivers, LAMBDA d : d.owner = b /\ d.constraint = "Spring")

\* C10: with unify_spring_props, the spring constraint of mch_target[i] (whose
\* input is mch_source[i]) gets exactly one driver per global spring property,
\* 9 in all; the expression is 'var * factor' exactly for speed, gravity and
\* damping and 'var' otherwise; var reads the equally named knob of the first
\* source bone and factor the <property>_factor knob of mch_target[i] itself.
\* Without unify_spring_props the spring constraints get no driver.
C10_SpringDrivers ==
    (pc = "done" /\ N >= 3) =>
        \A i \in 1..N :
            /\ Len(ConstraintsOf(mch_target[i])) = 1
            /\ ConstraintsOf(mch_target[i])[1].type = "SPRING"
            /\ ConstraintsOf(mch_target[i])[1].subtarget = mch_source[i]
            /\ ~unify_spring_props => SpringDriversOf(mch_target[i]) = <<>>
            /\ unify_spring_props =>
                  /\ Len(SpringDriversOf(mch_target[i])) = 9
                  /\ \A name \in GlobalKnobNames :
                        Len(DriversOn(mch_target[i], "Spring", name)) = 1
                  /\ \A k \in 1..9 :
                        LET d  == SpringDriversOf(mch_target[i])[k]
                            tw == d.path \in {"speed", "gravity", "damping"}
                        IN  /\ d.path \in GlobalKnobNames
                            /\ d.type = "SCRIPTED"
                            /\ d.expression = (IF tw THEN "var * factor" ELSE "var")
                            /\ Len(d.variables) = (IF tw THEN 2 ELSE 1)
                            /\ d.variables[1].name = "var"
                            /\ d.variables[1].data_path =
                                  "pose.bones[\"" \o org_bones[1] \o "\"][\""
                                  \o d.path \o "\"]"
                            /\ tw =>
                                  /\ d.variables[2].name = "factor"
                                  /\ d.variables[2].data_path =
                                        "pose.bones[\"" \o mch_target[i] \o "\"][\""
                                        \o d.path \o "_factor\"]"

C10_Witness ==
    /\ pc = "done"
    /\ N >= 3
    /\ unify_spring_props
    /\ \E k \in DOMAIN drivers :
          /\ drivers[k].owner = mch_target[N]
          /\ drivers[k].expression = "var * factor"

====
